---------------------------- MODULE Spec2Model ----------------------------
(***************************************************************************)
(* A model of cppan's resolve-fetch-generate pipeline:                     *)
(*   Config::download_dependencies  (src/src/cppan.cpp 932-1117)           *)
(*   Config::Config(const path &)   (src/src/cppan.cpp 587-594)            *)
(*   Config::create_build_files     (src/src/cppan.cpp 1737-1741)          *)
(*   ScopedCurrentPath              (src/src/common/filesystem.h 93-121)   *)
(*                                                                         *)
(* An invocation of the tool is a process with a program counter; the      *)
(* package cache (version directories, archive.md5 files, downloaded       *)
(* archives) is shared by all invocations.                                 *)
(***************************************************************************)
EXTENDS Integers, Sequences, FiniteSets

(***************************************************************************)
(* Bounds of the model.                                                    *)
(***************************************************************************)
MaxPkgs == 2        \* packages in one registry response
MaxProjects == 1    \* projects in the manifest
MaxRuns == 2        \* successive invocations against one cache
MaxGuards == 3      \* nested ScopedCurrentPath guards

Procs == {1, 2}

(***************************************************************************)
(* Package names are strings of characters, so that the regular expression *)
(* of the rebinding (declared name + ".*") is computed as std::regex       *)
(* computes it: '.' in the declared name matches any character.            *)
(***************************************************************************)
NameA == <<"a">>
NameB == <<"b">>
NameAB == <<"a", ".", "b">>
NameAC == <<"a", ".", "c">>
NameAAB == <<"a", "a", "b">>

DeclNames == {NameA, NameAB, NameB}      \* names a manifest may declare
PkgNames == {NameAB, NameAC, NameAAB}    \* names a registry response may return
Names == DeclNames \cup PkgNames

Versions == {"1", "2"}
AnyVersion == "*"

Md5s == {"A", "B"}         \* digests of archives (never empty)
RegistryMd5 == {"", "A"}          \* the md5 field of a response entry

\* std::map<String, ...> iterates its keys in ascending order of the bytes.
CharRank(c) == CASE c = "." -> 46 [] c = "a" -> 97 [] c = "b" -> 98 [] c = "c" -> 99

RECURSIVE NameLess(_, _)
NameLess(x, y) ==
    IF y = <<>> THEN FALSE
    ELSE IF x = <<>> THEN TRUE
    ELSE IF Head(x) # Head(y) THEN CharRank(Head(x)) < CharRank(Head(y))
    ELSE NameLess(Tail(x), Tail(y))

\* std::regex_match(received, std::regex(declared + ".*"))
RegexPrefixMatch(received, declared) ==
    /\ Len(declared) <= Len(received)
    /\ \A i \in 1..Len(declared) : declared[i] = "." \/ declared[i] = received[i]

(***************************************************************************)
(* ProjectPath renders a package name in dotted form (toString: one path   *)
(* element when appended to a directory) and as a filesystem path with one *)
(* element per segment of the name (toFileSystemPath).                     *)
(***************************************************************************)
toString(package) == <<package>>

RECURSIVE Segments(_, _)
Segments(rest, segment) ==
    IF rest = <<>> THEN <<segment>>
    ELSE IF Head(rest) = "." THEN <<segment>> \o Segments(Tail(rest), <<>>)
    ELSE Segments(Tail(rest), Append(segment, Head(rest)))

toFileSystemPath(package) == Segments(package, <<>>)

\* A name is absolute when it begins with a recognized owner segment ("a"
\* stands for it here); every other name, the empty one too, is relative.
OwnerSegments == {<<"a">>}
is_absolute(package) ==
    package # <<>> /\ Head(toFileSystemPath(package)) \in OwnerSegments
is_relative(package) == ~is_absolute(package)

(***************************************************************************)
(* Cache roots.  get_packages_dir: Local is the relative directory         *)
(* "cppan", User and System are the storage_dir of the user and system     *)
(* configuration; Config() sets storage_dir to the user's default.         *)
(***************************************************************************)
DirTypes == {"local", "user"}
LocalDir == "cppan"
UserStorage == "home"
StorageDir == "home"
Roots == {LocalDir, UserStorage}

get_packages_dir(type) ==
    CASE type = "local" -> LocalDir
      [] type = "user"  -> UserStorage
      [] OTHER          -> StorageDir

VersionDirs == Roots \X Names \X Versions     \* <root>/<package>/<version>
PackageDirs == Roots \X Names                 \* <root>/<package>

ProjectDir == <<"project">>                   \* the directory the tool is run in

(***************************************************************************)
(* A version directory: absent, or present with the files of an archive    *)
(* (src: the digest of that archive; complete: all of them were written)   *)
(* and possibly the per-package target file CMakeLists.txt.                *)
(***************************************************************************)
Absent == [exists |-> FALSE, src |-> "", complete |-> FALSE, target |-> FALSE]
Unpacked(md5, complete) ==
    [exists |-> TRUE, src |-> md5, complete |-> complete, target |-> FALSE]

NoFile == "<none>"       \* archive.md5, or a .tar.gz, that does not exist


(***************************************************************************)
(* The manifest: projects[k] maps each declared package to its Dependency  *)
(* (version, package_dir_type).  The registry's reply: api (0 when the key *)
(* is missing), error ("" when the key is missing) and the packages in     *)
(* document order.                                                         *)
(***************************************************************************)
DeclaredDeps == [version : {AnyVersion}, dir : DirTypes]
ProjectSet == UNION {[S -> DeclaredDeps] : S \in SUBSET DeclNames}
Manifests == UNION {[1..n -> ProjectSet] : n \in 1..MaxProjects}

RemotePackages == [name : PkgNames, version : Versions, direct : BOOLEAN, md5 : RegistryMd5]
PackageLists ==
    {l \in UNION {[1..n -> RemotePackages] : n \in 0..MaxPkgs} :
        \A i, j \in 1..Len(l) : i # j => l[i].name # l[j].name}
Replies == [api : {0, 1, 2}, error : {"", "E"}, packages : PackageLists]

NoDep == [name |-> <<>>, version |-> "", direct |-> FALSE, md5 |-> ""]
NoDir == <<>>
NoPackage == [version |-> "", dir |-> NoDir]
NoRequest == [sent |-> FALSE, data |-> <<>>]

VARIABLES
    inv,        \* inv[p]: the state of invocation p (see NewInvocation)
    manifest,   \* the projects of <cwd>/cppan.yml as loaded
    registry,   \* what the registry answers to find_dependencies
    dirs,       \* dirs[<<root, package, version>>]: the version directory
    md5files,   \* md5files[<<root, package>>]: content of archive.md5, or NoFile
    archives,   \* archives[<<root, package, version>>]: digest of <version>.tar.gz
    run,        \* number of the current invocation against this cache
    history,    \* what is remembered of the previous invocation
    guards,     \* the ScopedCurrentPath objects alive, innermost last
    gcwd,       \* the current directory of the process holding the guards
    gnote,      \* what the last guard operation was and found
    cfg,        \* a Config being built from the configuration layers
    prj,        \* a manifest being loaded by Config::load
    out         \* a per-package target file being printed

vars == <<inv, manifest, registry, dirs, md5files, archives, run, history,
          guards, gcwd, gnote, cfg, prj, out>>
loadVars == <<cfg, prj, out>>
cacheVars == <<dirs, md5files, archives>>
guardVars == <<guards, gcwd, gnote>>

(***************************************************************************)
(* An invocation: Config as loaded from the manifest, the locals of        *)
(* download_dependencies, the process current directory, and a record of   *)
(* what this invocation has done so far (fetched, written, downloads).     *)
(***************************************************************************)
NewInvocation(pc) ==
    [pc |-> pc,
     projects |-> manifest,
     tree |-> <<>>,                 \* dependency_tree.packages once received
     i |-> 0,                       \* position of the loop over remote_packages
     dep |-> NoDep,
     dependencies |-> <<>>,         \* dep.dependencies, built from the response
     version_dir |-> NoDir,
     file_md5 |-> "",
     must_download |-> FALSE,
     dl_md5 |-> "",
     packages |-> [n \in Names |-> NoPackage],
     indirect_dependencies |-> [n \in Names |-> NoPackage],
     cwd |-> ProjectDir,
     meta |-> FALSE,                \* <cwd>/cppan/CMakeLists.txt written
     helper |-> FALSE,              \* <cwd>/cppan/CppanHelpers.cmake written
     error |-> "",                  \* the step that threw, when pc = "failed"
     what |-> "",                   \* the message of the exception
     request |-> NoRequest,         \* the body posted to find_dependencies
     existed |-> FALSE,             \* the version directory existed when examined
     fetched |-> {},                \* packages located or downloaded+unpacked
     written |-> {},                \* packages whose target file was emitted
     downloads |-> {}]              \* packages download_file was called for

Off == [pc |-> "off"]

EmptyDirs == [d \in VersionDirs |-> Absent]
NoMd5Files == [d \in PackageDirs |-> NoFile]
NoArchives == [d \in VersionDirs |-> NoFile]

NoHistory == [ok |-> FALSE, dirs |-> EmptyDirs]

NoNote == [op |-> "none", path |-> <<>>, before |-> <<>>, captured |-> <<>>,
           unwinding |-> FALSE]

GuardsIdle ==
    /\ guards = <<>>
    /\ gcwd = ProjectDir
    /\ gnote = NoNote

\* No configuration is being loaded and no file printed.
LoadIdle ==
    /\ cfg = Off
    /\ prj = Off
    /\ out = Off

\* One invocation, started in the project directory against an empty cache.
Init ==
    /\ manifest \in Manifests
    /\ registry \in Replies
    /\ inv = [p \in Procs |-> IF p = 1 THEN NewInvocation("request") ELSE Off]
    /\ dirs = EmptyDirs
    /\ md5files = NoMd5Files
    /\ archives = NoArchives
    /\ run = 1
    /\ history = NoHistory
    /\ GuardsIdle
    /\ LoadIdle

Set(p, fields) == inv' = [inv EXCEPT ![p] = fields]
Fail(p, step) == [inv[p] EXCEPT !.pc = "failed", !.error = step]

(***************************************************************************)
(* download_dependencies, lines 934-972: the request and the checks of the *)
(* reply.                                                                  *)
(***************************************************************************)
\* The projects, in order, that declare the package.
Declaring(projects, package) ==
    {k \in 1..Len(projects) : package \in DOMAIN projects[k]}

Last(S) == CHOOSE k \in S : \A h \in S : h <= k

\* The body of the POST: {package: {version}} for the declared dependencies
\* of every project, relative names skipped; put_child replaces the entry a
\* previous project put under the same name.
RequestDataUnfiltered(projects) ==
    [n \in UNION {DOMAIN projects[k] : k \in 1..Len(projects)} |->
        projects[Last(Declaring(projects, n))][n].version]
RequestData(projects) ==
    [n \in UNION {{d \in DOMAIN projects[k] : ~is_relative(d)} : k \in 1..Len(projects)} |->
        projects[Last(Declaring(projects, n))][n].version]

\* error is looked at before api; a missing api reads as 0.
ReplyCheckApiOnly(reply) ==
    IF reply.api = 0 THEN "api missing"
    ELSE IF reply.api # 1 THEN "bad api"
    ELSE "ok"
ReplyCheck(reply) ==
    IF reply.error # "" THEN "error"
    ELSE IF reply.api = 0 THEN "api missing"
    ELSE IF reply.api # 1 THEN "bad api"
    ELSE "ok"

\* what() of the exception a rejected reply is answered with.
ReplyError(reply) ==
    IF reply.error # "" THEN reply.error
    ELSE IF reply.api = 0 THEN "Api version is missing in the response"
    ELSE "Bad api version"

Request(p) ==
    /\ inv[p].pc = "request"
    /\ LET data == RequestData(inv[p].projects)
           s == [inv[p] EXCEPT !.request = [sent |-> TRUE, data |-> data]]
       IN  IF DOMAIN data = {}
           THEN Set(p, [inv[p] EXCEPT !.pc = "returned"])
           ELSE IF ReplyCheck(registry) # "ok"
           THEN Set(p, [s EXCEPT !.pc = "failed", !.error = ReplyCheck(registry),
                                 !.what = ReplyError(registry)])
           ELSE Set(p, [s EXCEPT !.pc = "resolve", !.tree = registry.packages, !.i = 1])
    /\ UNCHANGED <<manifest, registry, cacheVars, run, history, guardVars, loadVars>>

(***************************************************************************)
(* Lines 999-1043: the cache directory of a returned package.  A direct    *)
(* dependency is rebound to a declared one, project by project: the        *)
(* declared dependency of the same name, else the first declared one (in   *)
(* key order) whose name, as a regular expression followed by ".*",        *)
(* matches; the version is written back and the cache root taken from it.  *)
(***************************************************************************)
FirstInKeyOrder(S) == CHOOSE d \in S : \A e \in S : e = d \/ NameLess(d, e)

BackWriteSkipped(project, d, version) == project
BackWrite(project, d, version) == [project EXCEPT ![d].version = version]

RECURSIVE Rebind(_, _, _, _, _)
Rebind(projects, k, dep, found, dir) ==
    IF k > Len(projects)
    THEN [found |-> found, dir |-> dir, projects |-> projects]
    ELSE LET project == projects[k]
             matches == {d \in DOMAIN project : RegexPrefixMatch(dep.name, d)}
             d == IF dep.name \in DOMAIN project THEN dep.name
                  ELSE FirstInKeyOrder(matches)
         IN  IF dep.name \notin DOMAIN project /\ matches = {}
             THEN Rebind(projects, k + 1, dep, found, dir)
             ELSE Rebind([projects EXCEPT ![k] = BackWrite(project, d, dep.version)],
                         k + 1, dep, TRUE,
                         <<get_packages_dir(project[d].dir)>> \o toString(dep.name))

\* Lines 980-996: when the entry has a "dependencies" key, idx is the set of
\* the ids listed there and every entry of the response whose id is in idx
\* becomes a Dependency (package, version, flags; no dependencies of its
\* own) of dep.dependencies, under its name.  get<int>("id") throws for an
\* entry that has no id.
NoId == -1

Inline(entry) == [version |-> entry.version, direct |-> entry.direct, dependencies |-> <<>>]

InlineDependenciesIgnoringIds(tree, i) ==
    IF "dependencies" \notin DOMAIN tree[i] THEN [ok |-> TRUE, dependencies |-> <<>>]
    ELSE IF \E j \in 1..Len(tree) : tree[j].id = NoId
    THEN [ok |-> FALSE, dependencies |-> <<>>]
    ELSE [ok |-> TRUE,
          dependencies |->
              [n \in {tree[j].name : j \in 1..Len(tree)} |->
                  Inline(tree[CHOOSE j \in 1..Len(tree) : tree[j].name = n])]]
InlineDependenciesOf(tree, i) ==
    IF "dependencies" \notin DOMAIN tree[i] THEN [ok |-> TRUE, dependencies |-> <<>>]
    ELSE IF \E j \in 1..Len(tree) : tree[j].id = NoId
    THEN [ok |-> FALSE, dependencies |-> <<>>]
    ELSE LET idx == tree[i].dependencies
             listed == {j \in 1..Len(tree) : tree[j].id \in idx}
         IN  [ok |-> TRUE,
              dependencies |->
                  [n \in {tree[j].name : j \in listed} |->
                      Inline(tree[CHOOSE j \in listed : tree[j].name = n])]]

LoopDoneEarly(i, tree) == i >= Len(tree)
LoopDone(i, tree) == i > Len(tree)

Resolve(p) ==
    /\ inv[p].pc = "resolve"
    /\ LET s == inv[p] IN
       IF LoopDone(s.i, s.tree)
       THEN Set(p, [s EXCEPT !.pc = "returned", !.dep = NoDep, !.dependencies = <<>>,
                            !.version_dir = NoDir])
       ELSE LET dep == s.tree[s.i]
                inline == InlineDependenciesOf(s.tree, s.i)
                r == IF dep.direct
                     THEN Rebind(s.projects, 1, dep, FALSE, NoDir)
                     ELSE [found |-> TRUE, dir |-> <<StorageDir>> \o toString(dep.name),
                           projects |-> s.projects]
            IN  IF ~inline.ok
                THEN Set(p, [Fail(p, "id") EXCEPT !.dep = dep])
                ELSE IF ~r.found
                THEN Set(p, [Fail(p, "rebind") EXCEPT
                                !.dep = dep, !.dependencies = inline.dependencies])
                ELSE Set(p, [s EXCEPT !.pc = "check", !.dep = dep,
                                      !.dependencies = inline.dependencies,
                                      !.projects = r.projects,
                                      !.version_dir = r.dir \o <<dep.version>>])
    /\ UNCHANGED <<manifest, registry, cacheVars, run, history, guardVars, loadVars>>

(***************************************************************************)
(* Lines 1045-1065: fetch or reuse.                                        *)
(***************************************************************************)
Md5File(vd) == <<vd[1], vd[2]>>      \* dep.package_dir.parent_path() / "archive.md5"

\* ifile >> file_md5 leaves the string empty when the file cannot be opened.
ReadMd5(content) == IF content = NoFile THEN "" ELSE content

MustDownloadInverted(file_md5, md5) == file_md5 = md5 \/ md5 = "" \/ file_md5 = ""
MustDownload(file_md5, md5) == file_md5 # md5 \/ md5 = "" \/ file_md5 = ""

NeedsFetch(exists, must_download) == ~exists \/ must_download

Check(p) ==
    /\ inv[p].pc = "check"
    /\ LET s == inv[p]
           file_md5 == ReadMd5(md5files[Md5File(s.version_dir)])
       IN  Set(p, [s EXCEPT !.pc = "decide", !.file_md5 = file_md5,
                            !.must_download = MustDownload(file_md5, s.dep.md5),
                            !.existed = dirs[s.version_dir].exists])
    /\ UNCHANGED <<manifest, registry, cacheVars, run, history, guardVars, loadVars>>

RemoveAllSkipped(dir) == dir
RemoveAll(dir) == Absent

Decide(p) ==
    /\ inv[p].pc = "decide"
    /\ LET s == inv[p]
           vd == s.version_dir
       IN  IF NeedsFetch(dirs[vd].exists, s.must_download)
           THEN /\ dirs' = [dirs EXCEPT ![vd] = IF @.exists THEN RemoveAll(@) ELSE @]
                /\ Set(p, [s EXCEPT !.pc = "download"])
           ELSE /\ dirs' = dirs
                /\ Set(p, [s EXCEPT !.pc = "target", !.fetched = @ \cup {s.i}])
    /\ UNCHANGED <<manifest, registry, md5files, archives, run, history, guardVars, loadVars>>

(***************************************************************************)
(* Lines 1067-1103: download, verify, record the digest, unpack, delete    *)
(* the archive.  download_file writes <version>.tar.gz and computes the    *)
(* digest of what it received; when it fails it deletes the partial        *)
(* archive before the error surfaces.                                      *)
(***************************************************************************)
DownloadOutcomes == Md5s \cup {NoFile}

\* What a failed download_file leaves of <version>.tar.gz.
DownloadFailed(archive) == NoFile

Download(p) ==
    /\ inv[p].pc = "download"
    /\ \E got \in DownloadOutcomes :
         LET s == [inv[p] EXCEPT !.downloads = @ \cup {inv[p].i}]
             vd == s.version_dir
         IN  IF got \in Md5s
             THEN /\ archives' = [archives EXCEPT ![vd] = got]
                  /\ Set(p, [s EXCEPT !.pc = "verify", !.dl_md5 = got])
             ELSE /\ archives' = [archives EXCEPT ![vd] = DownloadFailed(@)]
                  /\ Set(p, [s EXCEPT !.pc = "failed", !.error = "download"])
    /\ UNCHANGED <<manifest, registry, dirs, md5files, run, history, guardVars, loadVars>>

Md5AlwaysAccepted(dl_md5, md5) == FALSE
Md5Mismatch(dl_md5, md5) == dl_md5 # md5

Verify(p) ==
    /\ inv[p].pc = "verify"
    /\ IF Md5Mismatch(inv[p].dl_md5, inv[p].dep.md5)
       THEN Set(p, Fail(p, "md5"))
       ELSE Set(p, [inv[p] EXCEPT !.pc = "writemd5"])
    /\ UNCHANGED <<manifest, registry, cacheVars, run, history, guardVars, loadVars>>

WriteMd5(p) ==
    /\ inv[p].pc = "writemd5"
    /\ \E opened \in BOOLEAN :
         IF opened
         THEN /\ md5files' = [md5files EXCEPT ![Md5File(inv[p].version_dir)] = inv[p].dep.md5]
              /\ Set(p, [inv[p] EXCEPT !.pc = "unpack"])
         ELSE /\ md5files' = md5files
              /\ Set(p, Fail(p, "md5file"))
    /\ UNCHANGED <<manifest, registry, dirs, archives, run, history, guardVars, loadVars>>

\* catch (...) { fs::remove_all(version_dir); throw; }
UnpackCleanupMissing(dir) == dir
UnpackCleanup(dir) == Absent

\* unpack_file starts writing the files of the archive into version_dir.
Unpack(p) ==
    /\ inv[p].pc = "unpack"
    /\ LET vd == inv[p].version_dir IN
       IF archives[vd] \in Md5s
       THEN /\ dirs' = [dirs EXCEPT ![vd] = Unpacked(archives[vd], FALSE)]
            /\ Set(p, [inv[p] EXCEPT !.pc = "unpacking"])
       ELSE /\ dirs' = [dirs EXCEPT ![vd] = UnpackCleanup(@)]
            /\ Set(p, Fail(p, "unpack"))
    /\ UNCHANGED <<manifest, registry, md5files, archives, run, history, guardVars, loadVars>>

\* unpack_file returns, or throws and the handler removes version_dir.
Unpacking(p) ==
    /\ inv[p].pc = "unpacking"
    /\ \E unpacked \in BOOLEAN :
         LET vd == inv[p].version_dir IN
         IF unpacked /\ dirs[vd].exists
         THEN /\ dirs' = [dirs EXCEPT ![vd].complete = TRUE]
              /\ Set(p, [inv[p] EXCEPT !.pc = "rmarchive"])
         ELSE /\ dirs' = [dirs EXCEPT ![vd] = UnpackCleanup(@)]
              /\ Set(p, Fail(p, "unpack"))
    /\ UNCHANGED <<manifest, registry, md5files, archives, run, history, guardVars, loadVars>>

\* fs::remove(fn)
RemoveArchive(p) ==
    /\ inv[p].pc = "rmarchive"
    /\ archives' = [archives EXCEPT ![inv[p].version_dir] = NoFile]
    /\ Set(p, [inv[p] EXCEPT !.pc = "target", !.fetched = @ \cup {inv[p].i}])
    /\ UNCHANGED <<manifest, registry, dirs, md5files, run, history, guardVars, loadVars>>

(***************************************************************************)
(* Lines 1105-1115: the per-package target file is created in the version  *)
(* directory, the package's own manifest is loaded by Config(path), the    *)
(* file is printed and the package recorded.                               *)
(***************************************************************************)
Target(p) ==
    /\ inv[p].pc = "target"
    /\ LET vd == inv[p].version_dir IN
       IF dirs[vd].exists
       THEN /\ dirs' = [dirs EXCEPT ![vd].target = TRUE]
            /\ Set(p, [inv[p] EXCEPT !.pc = "load"])
       ELSE /\ dirs' = dirs
            /\ Set(p, Fail(p, "target"))
    /\ UNCHANGED <<manifest, registry, md5files, archives, run, history, guardVars, loadVars>>

\* Config::Config(const path &p): old = current_path(); current_path(p);
\* load_current_config(); current_path(old).  The result is the current
\* directory the constructor leaves behind, and whether it returned.
ConfigFromPath(cwd, p, entered, loaded) ==
    IF ~entered THEN [cwd |-> cwd, ok |-> FALSE]
    ELSE IF ~loaded THEN [cwd |-> p, ok |-> FALSE]
    ELSE [cwd |-> cwd, ok |-> TRUE]

Load(p) ==
    /\ inv[p].pc = "load"
    /\ \E loaded \in BOOLEAN :
         LET c == ConfigFromPath(inv[p].cwd, inv[p].version_dir,
                                 dirs[inv[p].version_dir].exists, loaded)
         IN  IF c.ok
             THEN Set(p, [inv[p] EXCEPT !.pc = "print", !.cwd = c.cwd])
             ELSE Set(p, [Fail(p, "manifest") EXCEPT !.cwd = c.cwd])
    /\ UNCHANGED <<manifest, registry, cacheVars, run, history, guardVars, loadVars>>

\* if (dep.flags[pfDirectDependency]) packages[...] = pi;
\* else indirect_dependencies[...] = dep;
RecordInBoth(maps, dep, pi) ==
    [packages |-> [maps.packages EXCEPT ![dep.name] = pi],
     indirect_dependencies |-> [maps.indirect_dependencies EXCEPT ![dep.name] = pi]]
RecordDirectOnly(maps, dep, pi) ==
    IF dep.direct
    THEN [maps EXCEPT !.packages[dep.name] = pi]
    ELSE maps
Record(maps, dep, pi) ==
    IF dep.direct
    THEN [maps EXCEPT !.packages[dep.name] = pi]
    ELSE [maps EXCEPT !.indirect_dependencies[dep.name] = pi]

\* print_package_config_file throws when the package's manifest has several
\* projects and none is the package; otherwise the file is written.
PrintPackage(p) ==
    /\ inv[p].pc = "print"
    /\ \E printed \in BOOLEAN :
         LET s == inv[p]
             pi == [version |-> s.dep.version, dir |-> s.version_dir]
             maps == Record([packages |-> s.packages,
                             indirect_dependencies |-> s.indirect_dependencies],
                            s.dep, pi)
         IN  IF ~printed
             THEN Set(p, Fail(p, "print"))
             ELSE Set(p, [s EXCEPT
                     !.pc = "resolve",
                     !.i = @ + 1,
                     !.written = @ \cup {s.i},
                     !.packages = maps.packages,
                     !.indirect_dependencies = maps.indirect_dependencies])
    /\ UNCHANGED <<manifest, registry, cacheVars, run, history, guardVars, loadVars>>

(***************************************************************************)
(* create_build_files, lines 1737-1741: the meta file, then the helper     *)
(* file, both in <cwd>/cppan.                                              *)
(***************************************************************************)
PrintMeta(p) ==
    /\ inv[p].pc = "returned"
    /\ Set(p, [inv[p] EXCEPT !.pc = "helper", !.meta = TRUE])
    /\ UNCHANGED <<manifest, registry, cacheVars, run, history, guardVars, loadVars>>

PrintHelper(p) ==
    /\ inv[p].pc = "helper"
    /\ Set(p, [inv[p] EXCEPT !.pc = "done", !.helper = TRUE])
    /\ UNCHANGED <<manifest, registry, cacheVars, run, history, guardVars, loadVars>>

Step(p) ==
    \/ Request(p) \/ Resolve(p) \/ Check(p) \/ Decide(p)
    \/ Download(p) \/ Verify(p) \/ WriteMd5(p)
    \/ Unpack(p) \/ Unpacking(p) \/ RemoveArchive(p)
    \/ Target(p) \/ Load(p) \/ PrintPackage(p)
    \/ PrintMeta(p) \/ PrintHelper(p)

Next == \E p \in Procs : Step(p)

Spec == Init /\ [][Next]_vars

(***************************************************************************)
(* Successive invocations against a cache that is not empty to start with. *)
(* The starting cache holds at most one package directory, left by earlier *)
(* invocations or by a killed one: any archive.md5 content, and one        *)
(* version directory that is complete (with its target file) or cut short. *)
(* The registry answers with at most one package.                          *)
(***************************************************************************)
LeftVersion == "1"
Md5FileContents == {NoFile, ""} \cup Md5s
LeftDirs ==
    {Absent, Unpacked("A", FALSE)} \cup
    {[Unpacked(m, TRUE) EXCEPT !.target = TRUE] : m \in Md5s}

StartingCaches ==
    {[dirs |-> [EmptyDirs EXCEPT ![<<UserStorage, n, LeftVersion>>] = d],
      md5files |-> [NoMd5Files EXCEPT ![<<UserStorage, n>>] = m]] :
        n \in PkgNames, d \in LeftDirs, m \in Md5FileContents}

InitCache ==
    /\ manifest \in {m \in [1..1 -> ProjectSet] : \A d \in DOMAIN m[1] : is_absolute(d)}
    /\ registry \in {r \in Replies : ReplyCheck(r) = "ok" /\ Len(r.packages) <= 1}
    /\ inv = [p \in Procs |-> IF p = 1 THEN NewInvocation("request") ELSE Off]
    /\ \E c \in StartingCaches : dirs = c.dirs /\ md5files = c.md5files
    /\ archives = NoArchives
    /\ run = 1
    /\ history = NoHistory
    /\ GuardsIdle
    /\ LoadIdle

\* The tool is run again: the manifest is loaded afresh, the registry
\* answers as before, the cache is what the previous invocation left.
Restart(p) ==
    /\ inv[p].pc \in {"done", "failed"}
    /\ run < MaxRuns
    /\ run' = run + 1
    /\ history' = [ok |-> inv[p].pc = "done", dirs |-> dirs]
    /\ Set(p, NewInvocation("request"))
    /\ UNCHANGED <<manifest, registry, cacheVars, guardVars, loadVars>>

NextCache == \E p \in Procs : Step(p) \/ Restart(p)

SpecCache == InitCache /\ [][NextCache]_vars

(***************************************************************************)
(* Successive invocations for one package whose version changes: between   *)
(* two runs the registry may come to answer with another version of the    *)
(* package, each version having its own archive and md5.  The first run    *)
(* starts on an empty cache.                                               *)
(***************************************************************************)
MaxFetches == 3

Releases == {[version |-> "1", md5 |-> "A"], [version |-> "2", md5 |-> "B"]}

VersionReplies ==
    {[api |-> 1, error |-> "",
      packages |-> <<[name |-> NameAB, version |-> r.version, direct |-> direct,
                      md5 |-> r.md5]>>] : r \in Releases, direct \in BOOLEAN}

InitVersions ==
    /\ manifest \in [1..1 -> [{NameAB} -> DeclaredDeps]]
    /\ registry \in VersionReplies
    /\ inv = [p \in Procs |-> IF p = 1 THEN NewInvocation("request") ELSE Off]
    /\ dirs = EmptyDirs
    /\ md5files = NoMd5Files
    /\ archives = NoArchives
    /\ run = 1
    /\ history = NoHistory
    /\ GuardsIdle
    /\ LoadIdle

\* The tool is run again, and the registry answers for the version that is
\* now requested.
Rerun(p) ==
    /\ inv[p].pc \in {"done", "failed"}
    /\ run < MaxFetches
    /\ run' = run + 1
    /\ history' = [ok |-> inv[p].pc = "done", dirs |-> dirs]
    /\ registry' \in VersionReplies
    /\ Set(p, NewInvocation("request"))
    /\ UNCHANGED <<manifest, cacheVars, guardVars, loadVars>>

NextVersions == \E p \in Procs : Step(p) \/ Rerun(p)

SpecVersions == InitVersions /\ [][NextVersions]_vars

(***************************************************************************)
(* One invocation whose response gives the packages ids and adjacency      *)
(* lists: an entry may have no "dependencies" key, an empty list, list     *)
(* itself, another entry (which may list it back) or an id that no entry   *)
(* has; an entry may come without an id, and two entries may share one.    *)
(* The first entry is the direct dependency.  A running invocation always  *)
(* takes its next step.                                                    *)
(***************************************************************************)
Ids == {1, 2}
DanglingId == 3
AdjacencyLists == {{}, {1}, {2}, {1, 2}, {DanglingId}}

EntryNames == <<NameAB, NameAC, NameAAB>>

TreeEntries(k) ==
    [name : {EntryNames[k]}, version : {"1"}, direct : {k = 1}, md5 : {"A"},
     id : Ids \cup {NoId}]
    \cup [name : {EntryNames[k]}, version : {"1"}, direct : {k = 1}, md5 : {"A"},
          id : Ids \cup {NoId}, dependencies : AdjacencyLists]

Trees ==
    UNION {{t \in [1..n -> UNION {TreeEntries(k) : k \in 1..n}] :
               \A k \in 1..n : t[k] \in TreeEntries(k)} : n \in 1..MaxPkgs}

InitTree ==
    /\ manifest = <<[n \in {NameAB} |-> [version |-> AnyVersion, dir |-> "user"]]>>
    /\ \E t \in Trees : registry = [api |-> 1, error |-> "", packages |-> t]
    /\ inv = [p \in Procs |-> IF p = 1 THEN NewInvocation("request") ELSE Off]
    /\ dirs = EmptyDirs
    /\ md5files = NoMd5Files
    /\ archives = NoArchives
    /\ run = 1
    /\ history = NoHistory
    /\ GuardsIdle
    /\ LoadIdle

NextTree == \E p \in Procs : Step(p)

SpecTree == InitTree /\ [][NextTree]_vars /\ WF_vars(NextTree)

(***************************************************************************)
(* Properties of the package cache (SpecCache).                            *)
(***************************************************************************)
Failed(p, errors) == inv[p].pc = "failed" /\ inv[p].error \in errors
Finished(p) == inv[p].pc \in {"returned", "helper", "done"}

\* C1: after download_dependencies fails at a step of fetching a package
\* (download, MD5 mismatch, writing archive.md5, unpack), the package's
\* version directory does not exist or holds the complete contents of an
\* archive whose MD5 is the registry's md5; it is never partially populated.
C1_NoPartialDirectoryAfterFailedFetch ==
    \A p \in Procs :
        Failed(p, {"download", "md5", "md5file", "unpack"}) =>
            LET d == dirs[inv[p].version_dir]
            IN  ~d.exists \/ (d.complete /\ d.src = inv[p].dep.md5)

C1_Witness ==
    \E p \in Procs : Failed(p, {"unpack"}) /\ inv[p].existed

\* C2 as stated: a run that follows a successful run with the same registry
\* response downloads nothing and leaves every version directory as it was;
\* and a package is reused whenever the content of archive.md5 equals the
\* registry md5 and the version directory exists.
SecondRunIdle ==
    \A p \in Procs :
        (inv[p].pc # "off" /\ run > 1 /\ history.ok) =>
            inv[p].downloads = {} /\ dirs = history.dirs

C2_AsStated ==
    /\ SecondRunIdle
    /\ \A p \in Procs :
         (/\ inv[p].pc = "decide"
          /\ md5files[Md5File(inv[p].version_dir)] = inv[p].dep.md5
          /\ dirs[inv[p].version_dir].exists)
         => ~NeedsFetch(dirs[inv[p].version_dir].exists, inv[p].must_download)

\* C2 amended: as above, but a package is reused whenever the md5 read from
\* archive.md5 is not empty, equals the registry md5 and the version
\* directory exists (an empty md5 always forces a download).
C2_IdempotentReuse ==
    /\ SecondRunIdle
    /\ \A p \in Procs :
         (/\ inv[p].pc = "decide"
          /\ md5files[Md5File(inv[p].version_dir)] = inv[p].dep.md5
          /\ inv[p].dep.md5 # ""
          /\ dirs[inv[p].version_dir].exists)
         => ~NeedsFetch(dirs[inv[p].version_dir].exists, inv[p].must_download)

C2_Witness ==
    \E p \in Procs :
        /\ inv[p].pc = "done" /\ run > 1 /\ history.ok
        /\ inv[p].fetched # {} /\ inv[p].existed

\* C3: an archive is unpacked only after its MD5, computed while downloading,
\* was found equal to the registry md5 (the directory being unpacked holds the
\* files of such an archive); when the two differ the call fails and the
\* version directory does not exist afterwards.
C3_UnpackOnlyVerified ==
    \A p \in Procs :
        /\ inv[p].pc \in {"writemd5", "unpack", "unpacking", "rmarchive"}
             => inv[p].dl_md5 = inv[p].dep.md5
        /\ inv[p].pc \in {"unpacking", "rmarchive"}
             => dirs[inv[p].version_dir].src = inv[p].dep.md5
        /\ Failed(p, {"md5"}) =>
             /\ inv[p].dl_md5 # inv[p].dep.md5
             /\ ~dirs[inv[p].version_dir].exists

C3_Witness ==
    \E p \in Procs : Failed(p, {"md5"}) /\ inv[p].existed

\* C4: when fetching a package fails after the download has started
\* (download error, MD5 mismatch, unpack error), both <version>.tar.gz and the
\* version directory are gone when the error reaches the caller.
C4_ArchiveAndDirectoryRemoved ==
    \A p \in Procs :
        Failed(p, {"download", "md5", "unpack"}) =>
            /\ archives[inv[p].version_dir] = NoFile
            /\ ~dirs[inv[p].version_dir].exists

(***************************************************************************)
(* Properties of one invocation (Spec).                                    *)
(***************************************************************************)
Returned(p) == 1..Len(inv[p].tree)      \* positions of the returned packages
Direct(p) == {i \in Returned(p) : inv[p].tree[i].direct}

\* The entry a written package was recorded under.
Recorded(p, i) ==
    IF inv[p].tree[i].direct
    THEN inv[p].packages[inv[p].tree[i].name]
    ELSE inv[p].indirect_dependencies[inv[p].tree[i].name]

C6_MetaAfterTargets ==
    \A p \in Procs :
        (inv[p].pc # "off" /\ inv[p].meta) => inv[p].written = Returned(p)

C6_Witness ==
    \E p \in Procs : inv[p].pc # "off" /\ inv[p].meta /\ Len(inv[p].tree) > 1

\* C9: whether download_dependencies returns or throws, the process current
\* directory afterwards equals its value before the call.
C9_CurrentDirectoryRestored ==
    \A p \in Procs :
        (Finished(p) \/ inv[p].pc = "failed") => inv[p].cwd = ProjectDir

\* The declared dependency of project k that a received name is bound to
\* (<<>> when the project has none).
BoundTo(project, name) ==
    IF name \in DOMAIN project THEN name
    ELSE IF \E d \in DOMAIN project : RegexPrefixMatch(name, d)
    THEN FirstInKeyOrder({d \in DOMAIN project : RegexPrefixMatch(name, d)})
    ELSE <<>>

\* C10 as stated: after download_dependencies succeeds, every returned direct
\* package is recorded in Config.packages with the registry's version, and
\* the declared dependency it was matched to carries that same version.
C10_AsStated ==
    \A p \in Procs :
        Finished(p) =>
            \A i \in Direct(p) :
                LET dep == inv[p].tree[i] IN
                /\ inv[p].packages[dep.name].version = dep.version
                /\ \A k \in 1..Len(inv[p].projects) :
                     BoundTo(inv[p].projects[k], dep.name) # <<>> =>
                        inv[p].projects[k][BoundTo(inv[p].projects[k], dep.name)].version
                            = dep.version

\* C10 amended: ... and the declared dependency it was matched to carries
\* the registry version of the last returned direct package matched to that
\* declaration (the package's own version when it is the only one).
C10_VersionsPinned ==
    \A p \in Procs :
        Finished(p) =>
            \A i \in Direct(p) :
                LET dep == inv[p].tree[i] IN
                /\ inv[p].packages[dep.name].version = dep.version
                /\ \A k \in 1..Len(inv[p].projects) :
                     LET project == inv[p].projects[k]
                         d == BoundTo(project, dep.name)
                         same == {j \in Direct(p) : BoundTo(project, inv[p].tree[j].name) = d}
                         last == CHOOSE j \in same : \A h \in same : h <= j
                     IN  d # <<>> => project[d].version = inv[p].tree[last].version

C10_Witness ==
    \E p \in Procs :
        /\ Finished(p)
        /\ \E i, j \in Direct(p) :
             /\ i # j
             /\ inv[p].tree[i].version # inv[p].tree[j].version
             /\ BoundTo(inv[p].projects[1], inv[p].tree[i].name) = NameA
             /\ BoundTo(inv[p].projects[1], inv[p].tree[j].name) = NameA

\* d, character by character, is the beginning of name.
IsPrefix(d, name) == Len(d) <= Len(name) /\ SubSeq(name, 1, Len(d)) = d

\* C11: a returned direct package is bound to the declared dependency of the
\* identical name if there is one, otherwise to a declared dependency whose
\* name is a prefix of the received name; when no declared dependency of any
\* project is identical to or a prefix of the received name,
\* download_dependencies fails with the internal error, and that package is
\* neither downloaded nor recorded.
C11_BindsIdenticalOrPrefix ==
    \A p \in Procs :
        (inv[p].pc # "off" /\ inv[p].dep # NoDep /\ inv[p].dep.direct) =>
            LET name == inv[p].dep.name
                declared == \E k \in 1..Len(inv[p].projects) :
                               \E d \in DOMAIN inv[p].projects[k] : IsPrefix(d, name)
            IN  /\ Failed(p, {"rebind"}) <=> ~declared
                /\ Failed(p, {"rebind"}) =>
                      /\ inv[p].i \notin inv[p].downloads
                      /\ inv[p].packages[name] = NoPackage

\* Two paths have the same elements in the same order.
SamePath(x, y) == Len(x) = Len(y) /\ \A i \in 1..Len(x) : x[i] = y[i]

\* C12: for every package p and version v that download_dependencies
\* handles, the version directory is <root>/<p with every '.' replaced by
\* the path separator>/<v> and the integrity file is archive.md5 in
\* <root>/<p with every '.' replaced by the path separator>.
C12_DirectoryLayout ==
    \A p \in Procs :
        (inv[p].pc # "off" /\ inv[p].version_dir # NoDir) =>
            LET root == <<inv[p].version_dir[1]>>
                package_dir == root \o toFileSystemPath(inv[p].dep.name)
            IN  /\ SamePath(inv[p].version_dir, package_dir \o <<inv[p].dep.version>>)
                /\ SamePath(Md5File(inv[p].version_dir), package_dir)

\* The invocation has changed nothing: no download, no cache directory, no
\* recorded package, no declared version.
NothingChanged(p) ==
    /\ inv[p].downloads = {}
    /\ dirs = EmptyDirs /\ md5files = NoMd5Files /\ archives = NoArchives
    /\ \A n \in Names : /\ inv[p].packages[n] = NoPackage
                        /\ inv[p].indirect_dependencies[n] = NoPackage
    /\ inv[p].projects = manifest

\* C13: the returned packages are processed only when the response has no
\* error key and its api is 1; when error is present its text is raised
\* verbatim, when api is missing or not 1 the call fails, and in each of
\* these cases nothing is downloaded and no cache directory, Config.packages
\* entry or declared version is changed.
C13_ReplyChecked ==
    \A p \in Procs :
        (inv[p].pc # "off" /\ inv[p].request.sent) =>
            /\ inv[p].i >= 1 => (registry.error = "" /\ registry.api = 1)
            /\ registry.error # "" =>
                  inv[p].pc = "failed" /\ inv[p].what = registry.error
            /\ registry.api # 1 => inv[p].pc = "failed"
            /\ (registry.error # "" \/ registry.api # 1) => NothingChanged(p)

C13_Witness ==
    \E p \in Procs :
        /\ inv[p].pc = "failed" /\ inv[p].request.sent
        /\ registry.error # "" /\ registry.api = 1 /\ registry.packages # <<>>

\* C14: the request body holds one entry {package: {version}} for every
\* absolute package that a project declares as a dependency, and nothing
\* else; when no project declares a dependency no request is sent and
\* Config.packages and Config.indirect_dependencies stay empty.
C14_RequestBody ==
    \A p \in Procs :
        (inv[p].pc \notin {"off", "request"}) =>
            LET declared == UNION {DOMAIN manifest[k] : k \in 1..Len(manifest)}
            IN  /\ inv[p].request.sent =>
                      /\ DOMAIN inv[p].request.data = {n \in declared : is_absolute(n)}
                      /\ \A n \in DOMAIN inv[p].request.data :
                            \E k \in Declaring(manifest, n) :
                                inv[p].request.data[n] = manifest[k][n].version
                /\ declared = {} =>
                      /\ ~inv[p].request.sent
                      /\ \A n \in Names : /\ inv[p].packages[n] = NoPackage
                                          /\ inv[p].indirect_dependencies[n] = NoPackage

C14_Witness ==
    \E p \in Procs :
        /\ inv[p].pc # "off"
        /\ inv[p].request.sent
        /\ \E k \in 1..Len(manifest) : \E d \in DOMAIN manifest[k] : is_relative(d)

\* The loop failed while handling the package at position k.
FailedAt(p, k) == inv[p].pc = "failed" /\ inv[p].i = k /\ k >= 1

\* Nothing of the package at position j is in the cache or in the Config.
Untouched(p, j) ==
    LET dep == inv[p].tree[j]
    IN  /\ \A root \in Roots :
             /\ dirs[<<root, dep.name, dep.version>>] = Absent
             /\ md5files[<<root, dep.name>>] = NoFile
             /\ archives[<<root, dep.name, dep.version>>] = NoFile
        /\ inv[p].packages[dep.name] = NoPackage
        /\ inv[p].indirect_dependencies[dep.name] = NoPackage

\* C25: the returned packages are handled one at a time in the order of
\* the response: when download_dependencies fails at the k-th package, the
\* packages before it are unpacked in the cache and recorded in packages or
\* indirect_dependencies, and the cache directories, archive.md5 files and
\* Config entries of the packages after it are as they were (here: absent).
C25_OneAtATime ==
    \A p \in Procs :
        \A k \in 1..MaxPkgs :
            FailedAt(p, k) =>
                /\ \A j \in 1..(k - 1) :
                     LET vd == Recorded(p, j).dir
                     IN  /\ Recorded(p, j) # NoPackage
                         /\ Recorded(p, j).version = inv[p].tree[j].version
                         /\ dirs[vd].exists /\ dirs[vd].complete
                         /\ dirs[vd].src = inv[p].tree[j].md5
                /\ \A j \in (k + 1)..Len(inv[p].tree) : Untouched(p, j)

C25_Witness ==
    \E p \in Procs :
        /\ FailedAt(p, 2)
        /\ inv[p].error = "md5"
        /\ ~inv[p].tree[1].direct
        /\ Recorded(p, 1) # NoPackage

\* C26: after download_dependencies has succeeded on a Config whose
\* packages and indirect_dependencies were empty, every returned package is
\* recorded in exactly one of the two: in packages iff it is flagged as a
\* direct dependency, otherwise in indirect_dependencies; the two key sets
\* are disjoint and together are the returned package names.
Keys(map) == {n \in DOMAIN map : map[n] # NoPackage}

C26_RecordedInOneMap ==
    \A p \in Procs :
        Finished(p) =>
            /\ \A i \in Returned(p) :
                 LET dep == inv[p].tree[i]
                 IN  /\ dep.name \in Keys(inv[p].packages) <=> dep.direct
                     /\ dep.name \in Keys(inv[p].indirect_dependencies) <=> ~dep.direct
            /\ Keys(inv[p].packages) \cap Keys(inv[p].indirect_dependencies) = {}
            /\ Keys(inv[p].packages) \cup Keys(inv[p].indirect_dependencies)
                 = {inv[p].tree[i].name : i \in Returned(p)}

C26_Witness ==
    \E p \in Procs :
        /\ Finished(p)
        /\ Len(inv[p].tree) = 2
        /\ inv[p].tree[1].direct /\ ~inv[p].tree[2].direct
        /\ Keys(inv[p].packages) = {inv[p].tree[1].name}
        /\ Keys(inv[p].indirect_dependencies) = {inv[p].tree[2].name}

\* C28: when the MD5 of a downloaded archive differs from the registry's
\* md5 for a package whose version directory existed before the call,
\* archive.md5 has the content it had, but the version directory has been
\* removed.
C28_MismatchKeepsMd5FileLosesDirectory ==
    \A p \in Procs :
        (Failed(p, {"md5"}) /\ inv[p].existed) =>
            /\ ReadMd5(md5files[Md5File(inv[p].version_dir)]) = inv[p].file_md5
            /\ ~dirs[inv[p].version_dir].exists

C28_Witness ==
    \E p \in Procs :
        /\ Failed(p, {"md5"})
        /\ inv[p].existed
        /\ inv[p].file_md5 \in Md5s
        /\ md5files[Md5File(inv[p].version_dir)] = inv[p].file_md5

\* The version directories of the package of version_dir vd, in its root.
SiblingDirs(vd) == {<<vd[1], vd[2], v>> : v \in Versions}

\* The package being handled was downloaded and verified in this pass and
\* its md5 written down.
VerifiedAndWritten(p) ==
    /\ inv[p].pc \in {"unpack", "unpacking", "rmarchive", "target", "load", "print"}
    /\ inv[p].i \in inv[p].downloads

Terminated(p) == inv[p].pc \in {"returned", "helper", "done", "failed"}

\* The package at position i is being handled, past the building of its
\* inline dependencies.
Handling(p) ==
    inv[p].pc \in {"check", "decide", "download", "verify", "writemd5", "unpack",
                   "unpacking", "rmarchive", "target", "load", "print"}

\* The inline dependencies are the entries of the response whose id is in
\* the package's list, each without dependencies of its own; nothing is
\* built for an id that no entry has.
OneLevelDeep(p) ==
    LET tree == inv[p].tree
        entry == tree[inv[p].i]
        idx == IF "dependencies" \in DOMAIN entry THEN entry.dependencies ELSE {}
    IN  /\ DOMAIN inv[p].dependencies
             = {tree[j].name : j \in {m \in 1..Len(tree) : tree[m].id \in idx}}
        /\ \A n \in DOMAIN inv[p].dependencies :
             /\ inv[p].dependencies[n].dependencies = <<>>
             /\ \E j \in 1..Len(tree) :
                  /\ tree[j].name = n
                  /\ inv[p].dependencies[n].version = tree[j].version

C29_Shape ==
    \A p \in Procs :
        /\ Handling(p) => OneLevelDeep(p)
        /\ inv[p].pc = "download" => inv[p].i \notin inv[p].downloads
        /\ inv[p].pc # "off" => inv[p].downloads \subseteq 1..Len(inv[p].tree)

\* C29: download_dependencies terminates for every finite response,
\* adjacency lists with cycles or self-references included: the inline
\* dependencies of a package are built one level deep from the entries
\* whose id is in its list (an id that names no entry is ignored), and
\* download_file is called at most once for each returned package.
C29_Terminates ==
    /\ []C29_Shape
    /\ <>(\A p \in Procs : inv[p].pc = "off" \/ Terminated(p))

\* Two packages that list each other, the first also itself, both fetched,
\* and the call has returned.
C29_Witness ==
    \E p \in Procs :
        /\ inv[p].pc = "returned"
        /\ Len(inv[p].tree) = 2
        /\ "dependencies" \in DOMAIN inv[p].tree[1]
        /\ "dependencies" \in DOMAIN inv[p].tree[2]
        /\ inv[p].tree[1].id = 1 /\ inv[p].tree[2].id = 2
        /\ inv[p].tree[1].dependencies = {1, 2}
        /\ inv[p].tree[2].dependencies = {1}
        /\ inv[p].downloads = {1, 2}

(***************************************************************************)
(* ScopedCurrentPath (src/src/common/filesystem.h 93-121).  Directories    *)
(* are absolute paths, sequences of segments from the root; the path given *)
(* to a guard is empty, absolute or relative to the current directory.     *)
(***************************************************************************)
ExistingDirs == {<<>>, ProjectDir, ProjectDir \o <<"cppan">>, <<"home">>}

EmptyPath == [abs |-> FALSE, segs |-> <<>>]
GuardPaths ==
    {EmptyPath,
     [abs |-> TRUE, segs |-> <<"home">>],
     [abs |-> TRUE, segs |-> ProjectDir],
     [abs |-> TRUE, segs |-> <<"missing">>],
     [abs |-> FALSE, segs |-> <<"cppan">>],
     [abs |-> FALSE, segs |-> <<"..">>]}

\* Where fs::current_path(p) leads from cwd.
RECURSIVE Walk(_, _)
Walk(dir, segs) ==
    IF segs = <<>> THEN dir
    ELSE IF Head(segs) = ".."
    THEN Walk(IF dir = <<>> THEN dir ELSE SubSeq(dir, 1, Len(dir) - 1), Tail(segs))
    ELSE Walk(Append(dir, Head(segs)), Tail(segs))

ResolvePath(cwd, path) == IF path.abs THEN Walk(<<>>, path.segs) ELSE Walk(cwd, path.segs)

\* ScopedCurrentPath(): old = fs::current_path(); cwd = old.
DefaultGuard(current) == [old |-> current, cwd |-> current, captured |-> current]

\* ~ScopedCurrentPath(): fs::current_path(old).
RestoredToGuardCwd(g) == g.cwd
Restored(g) == g.old

InitGuard ==
    /\ manifest = <<>>
    /\ registry = [api |-> 1, error |-> "", packages |-> <<>>]
    /\ inv = [p \in Procs |-> Off]
    /\ dirs = EmptyDirs
    /\ md5files = NoMd5Files
    /\ archives = NoArchives
    /\ run = 1
    /\ history = NoHistory
    /\ guards = <<>>
    /\ gcwd \in ExistingDirs
    /\ gnote = NoNote
    /\ LoadIdle

\* ScopedCurrentPath(const path &p).  When fs::current_path(p) throws, the
\* delegated-to constructor has completed, so the destructor runs before the
\* error propagates.
Acquire(path) ==
    /\ ~gnote.unwinding
    /\ Len(guards) < MaxGuards
    /\ LET g == DefaultGuard(gcwd)
           to == ResolvePath(gcwd, path)
           note == [op |-> "acquire", path |-> path, before |-> gcwd,
                    captured |-> g.captured, unwinding |-> FALSE]
       IN  IF path = EmptyPath
           THEN /\ guards' = Append(guards, g)
                /\ gcwd' = gcwd
                /\ gnote' = note
           ELSE IF to \in ExistingDirs
           THEN /\ guards' = Append(guards, [g EXCEPT !.cwd = to])
                /\ gcwd' = to
                /\ gnote' = note
           ELSE /\ guards' = guards
                /\ gcwd' = Restored(g)
                /\ gnote' = [note EXCEPT !.op = "acquire failed",
                                         !.unwinding = guards # <<>>]
    /\ UNCHANGED <<inv, manifest, registry, cacheVars, run, history, loadVars>>

\* The innermost guard goes out of scope, normally or while an error
\* propagates.
Release ==
    /\ guards # <<>>
    /\ LET g == guards[Len(guards)] IN
       /\ guards' = SubSeq(guards, 1, Len(guards) - 1)
       /\ gcwd' = Restored(g)
       /\ gnote' = [op |-> "release", path |-> <<>>, before |-> gcwd,
                    captured |-> g.captured,
                    unwinding |-> gnote.unwinding /\ Len(guards) > 1]
    /\ UNCHANGED <<inv, manifest, registry, cacheVars, run, history, loadVars>>

\* An error is raised inside the innermost guard's scope.
Throw ==
    /\ guards # <<>>
    /\ ~gnote.unwinding
    /\ gnote' = [gnote EXCEPT !.op = "throw", !.unwinding = TRUE]
    /\ UNCHANGED <<inv, manifest, registry, cacheVars, run, history, guards, gcwd, loadVars>>

\* The error is caught by a handler inside the scope of the guards left.
Catch ==
    /\ gnote.unwinding
    /\ gnote.op = "release"
    /\ gnote' = [gnote EXCEPT !.op = "catch", !.unwinding = FALSE]
    /\ UNCHANGED <<inv, manifest, registry, cacheVars, run, history, guards, gcwd, loadVars>>

NextGuard ==
    \/ \E path \in GuardPaths : Acquire(path)
    \/ Release
    \/ Throw
    \/ Catch

SpecGuard == InitGuard /\ [][NextGuard]_vars

\* C8: for guards acquired and released in LIFO order, each optionally
\* changing the directory and possibly released while an error propagates,
\* the current directory right after a guard is released is the directory
\* captured when that guard was acquired; a guard built with an empty path
\* changes nothing.
C8_GuardRestoresDirectory ==
    /\ gnote.op = "release" => gcwd = gnote.captured
    /\ (gnote.op = "acquire" /\ gnote.path = EmptyPath) => gcwd = gnote.before

C8_Witness ==
    /\ gnote.op = "release"
    /\ gnote.unwinding
    /\ guards # <<>>
    /\ gnote.before # gcwd

(***************************************************************************)
(* Two invocations of the tool at once, with the same manifest and the     *)
(* same registry answer, against the same (empty) user cache.              *)
(***************************************************************************)
InitConc ==
    /\ manifest = <<[n \in {NameAB} |-> [version |-> AnyVersion, dir |-> "user"]]>>
    /\ \E v \in Versions, direct \in BOOLEAN, md5 \in RegistryMd5 :
         registry = [api |-> 1, error |-> "",
                     packages |-> <<[name |-> NameAB, version |-> v,
                                     direct |-> direct, md5 |-> md5]>>]
    /\ inv = [p \in Procs |-> NewInvocation("request")]
    /\ dirs = EmptyDirs
    /\ md5files = NoMd5Files
    /\ archives = NoArchives
    /\ run = 1
    /\ history = NoHistory
    /\ GuardsIdle
    /\ LoadIdle

SpecConc == InitConc /\ [][Next]_vars

\* An invocation is producing its version directory from the moment it has
\* decided to fetch (and removed what was there) until the archive is
\* unpacked and deleted.
Producing(p) ==
    inv[p].pc \in {"download", "verify", "writemd5", "unpack", "unpacking", "rmarchive"}

\* C7: when two invocations handle the same package and version against the
\* same cache root concurrently, the version directory is always complete and
\* integrity-verified, absent, or being produced by exactly one of them; the
\* two never remove or unpack the same version directory at the same time.
C7_SingleProducer ==
    /\ \A p, q \in Procs :
         (p # q /\ Producing(p) /\ Producing(q)) =>
            inv[p].version_dir # inv[q].version_dir
    /\ \A vd \in VersionDirs :
         \/ ~dirs[vd].exists
         \/ dirs[vd].complete /\ dirs[vd].src = md5files[Md5File(vd)]
         \/ Cardinality({p \in Procs : Producing(p) /\ inv[p].version_dir = vd}) = 1

(***************************************************************************)
(* The target declaration of a per-package file                            *)
(* (Config::print_package_config_file, src/src/cppan.cpp 1119-1265).       *)
(***************************************************************************)
\* No invocation of download_dependencies, an empty cache, no guard.
DownloadIdle ==
    /\ manifest = <<>>
    /\ registry = [api |-> 1, error |-> "", packages |-> <<>>]
    /\ inv = [p \in Procs |-> Off]
    /\ dirs = EmptyDirs
    /\ md5files = NoMd5Files
    /\ archives = NoArchives
    /\ run = 1
    /\ history = NoHistory
    /\ GuardsIdle

pfHeaderOnly == "pfHeaderOnly"
pfExecutable == "pfExecutable"
pfPrivate == "pfPrivate"
pfDirectDependency == "pfDirectDependency"
ProjectFlags == {pfHeaderOnly, pfExecutable, pfPrivate, pfDirectDependency}

(***************************************************************************)
(* Version: three integers, -1 for "any", or a branch name.                *)
(* toAnyVersion is "*" when all three are -1, the branch name for a        *)
(* branch, otherwise the dotted form cut at the first -1.                  *)
(***************************************************************************)
Version(major, minor, patch, branch) ==
    [major |-> major, minor |-> minor, patch |-> patch, branch |-> branch]

Digit(n) == CASE n = 0 -> "0" [] n = 1 -> "1" [] n = 2 -> "2" [] n = 3 -> "3"

isBranch(v) == v.branch # ""

toAnyVersion(v) ==
    IF isBranch(v) THEN <<v.branch>>
    ELSE IF v.major = -1 /\ v.minor = -1 /\ v.patch = -1 THEN <<AnyVersion>>
    ELSE IF v.major = -1 THEN <<>>
    ELSE IF v.minor = -1 THEN <<Digit(v.major)>>
    ELSE IF v.patch = -1 THEN <<Digit(v.major), ".", Digit(v.minor)>>
    ELSE <<Digit(v.major), ".", Digit(v.minor), ".", Digit(v.patch)>>

PrintedVersions ==
    {Version(-1, -1, -1, ""), Version(1, 2, 3, ""), Version(2, 0, 1, ""),
     Version(-1, -1, -1, "main")}

\* Option levels and the global definitions a manifest gives at each.
Levels == {"any", "static"}
NoDefinitions == [l \in Levels |-> {}]

\* check_symbol_exists: symbol -> headers; no symbol at all is <<>>.
NoSymbols == <<>>

\* The dependencies declared in a package's own manifest (p.dependencies)
\* and those the registry lists inline for it (d.dependencies).
LinkedNames == {NameAB, NameAC}
DeclaredLinks ==
    UNION {[S -> [version : {Version(-1, -1, -1, "")}, flags : {{}, {pfPrivate}}]] :
              S \in SUBSET (LinkedNames \cup {NameA})}
InlineDependencies ==
    UNION {[S -> [flags : {{}, {pfExecutable}}]] : S \in SUBSET LinkedNames}

\* The packages a target file is printed for: the Dependency d built from
\* the registry's entry, and what the Config loaded from the package's own
\* manifest holds (its project's dependencies and options, its checks).
PrintedDeps ==
    [name : PkgNames, version : PrintedVersions, flags : SUBSET ProjectFlags,
     dependencies : InlineDependencies,
     project_dependencies : DeclaredLinks,
     global_definitions : {NoDefinitions},
     check_functions : {{}},
     check_symbols : {NoSymbols}]

\* PackageInfo::PackageInfo: the package, and "-" and the version unless the
\* version is "*".
target_name(d) ==
    LET v == toAnyVersion(d.version)
    IN  IF v = <<AnyVersion>> THEN d.name ELSE d.name \o <<"-">> \o v

\* std::replace(begin, end, '.', '_')
ReplaceDots(str) == [k \in 1..Len(str) |-> IF str[k] = "." THEN "_" ELSE str[k]]

variable_nameKeepsDots(d) ==
    LET v == toAnyVersion(d.version)
    IN  d.name \o <<"_">> \o (IF v = <<AnyVersion>> THEN <<>> ELSE <<"_">> \o v)
variable_name(d) ==
    LET v == toAnyVersion(d.version)
    IN  ReplaceDots(d.name \o <<"_">> \o
                    (IF v = <<AnyVersion>> THEN <<>> ELSE <<"_">> \o v))

PackageInfo(d) ==
    [dependency |-> d, target_name |-> target_name(d),
     variable_name |-> variable_name(d)]

\* The line that declares the target.
TargetLineHeaderFirst(d) ==
    IF pfHeaderOnly \in d.flags
    THEN [command |-> "add_library", target |-> target_name(d),
          arguments |-> <<"INTERFACE">>]
    ELSE IF pfExecutable \in d.flags
    THEN [command |-> "add_executable", target |-> target_name(d),
          arguments |-> <<"${src}">>]
    ELSE [command |-> "add_library", target |-> target_name(d),
          arguments |-> <<"${LIBRARY_TYPE}", "${src}">>]
TargetLine(d) ==
    LET header_only == pfHeaderOnly \in d.flags
    IN  IF pfExecutable \in d.flags
        THEN [command |-> "add_executable", target |-> target_name(d),
              arguments |-> <<"${src}">>]
        ELSE IF header_only
        THEN [command |-> "add_library", target |-> target_name(d),
              arguments |-> <<"INTERFACE">>]
        ELSE [command |-> "add_library", target |-> target_name(d),
              arguments |-> <<"${LIBRARY_TYPE}", "${src}">>]

\* target_link_libraries: the helper library, then every dependency of the
\* project that the registry's inline entry does not flag pfExecutable.
HelperLibrary == <<"cppan-helpers">>

Visibility(header_only, flags) ==
    IF header_only THEN "INTERFACE"
    ELSE IF pfPrivate \in flags THEN "PRIVATE"
    ELSE "PUBLIC"

LinkLibrariesAll(d) ==
    LET header_only == pfHeaderOnly \in d.flags
    IN  {[visibility |-> IF header_only THEN "INTERFACE" ELSE "PUBLIC",
          library |-> HelperLibrary]}
        \cup {[visibility |-> Visibility(header_only, d.project_dependencies[d1].flags),
               library |-> target_name([name |-> d1,
                                        version |-> d.project_dependencies[d1].version])] :
                  d1 \in DOMAIN d.project_dependencies}
LinkLibraries(d) ==
    LET header_only == pfHeaderOnly \in d.flags
        linked == {d1 \in DOMAIN d.project_dependencies :
                      ~(d1 \in DOMAIN d.dependencies
                        /\ pfExecutable \in d.dependencies[d1].flags)}
    IN  {[visibility |-> IF header_only THEN "INTERFACE" ELSE "PUBLIC",
          library |-> HelperLibrary]}
        \cup {[visibility |-> Visibility(header_only, d.project_dependencies[d1].flags),
               library |-> target_name([name |-> d1,
                                        version |-> d.project_dependencies[d1].version])] :
                  d1 \in linked}

\* The aliases: ver.patch = -1, then ver.minor = -1, then the bare package.
AliasesOfBranchToo(d) ==
    LET ver == [d.version EXCEPT !.patch = -1]
        ver1 == [ver EXCEPT !.minor = -1]
    IN  <<d.name \o <<"-">> \o toAnyVersion(ver),
          d.name \o <<"-">> \o toAnyVersion(ver1),
          d.name>>
Aliases(d) ==
    IF isBranch(d.version) THEN <<>>
    ELSE LET ver == [d.version EXCEPT !.patch = -1]
             ver1 == [ver EXCEPT !.minor = -1]
         IN  <<d.name \o <<"-">> \o toAnyVersion(ver),
               d.name \o <<"-">> \o toAnyVersion(ver1),
               d.name>>

\* GATHER_CHECK: parent.c.insert(c.begin(), c.end()); for the map
\* check_symbols an entry already there is kept.
GatherSet(parent, c) == parent \cup c

GatherSymbolsMerged(parent, c) ==
    [sym \in DOMAIN parent \cup DOMAIN c |->
        (IF sym \in DOMAIN parent THEN parent[sym] ELSE {})
        \cup (IF sym \in DOMAIN c THEN c[sym] ELSE {})]
GatherSymbols(parent, c) ==
    [sym \in DOMAIN parent \cup DOMAIN c |->
        IF sym \in DOMAIN parent THEN parent[sym] ELSE c[sym]]

\* parent.global_options[level].global_definitions.insert(...) for every
\* option level of the project.
PromoteToAny(global_options, options) ==
    [l \in Levels |->
        IF l = "any" THEN global_options[l] \cup UNION {options[m] : m \in Levels}
        ELSE global_options[l]]
Promote(global_options, options) ==
    [l \in Levels |-> global_options[l] \cup options[l]]

\* The Config the packages are printed into (the parent).
EmptyParent ==
    [check_functions |-> {}, check_symbols |-> NoSymbols,
     global_options |-> NoDefinitions]

NewOutput(d, parent) ==
    [pc |-> "print", dep |-> d, target |-> <<>>, links |-> {}, aliases |-> <<>>,
     pi |-> <<>>, parent |-> parent, initial |-> parent, printed |-> <<>>]

InitEmit ==
    /\ DownloadIdle
    /\ cfg = Off
    /\ prj = Off
    /\ \E d \in PrintedDeps : out = NewOutput(d, EmptyParent)

\* Config::print_package_config_file(o, d, parent)
PrintTarget ==
    /\ out.pc = "print"
    /\ LET d == out.dep IN
       out' = [out EXCEPT
                 !.pc = "printed",
                 !.pi = PackageInfo(d),
                 !.target = <<TargetLine(d)>>,
                 !.links = LinkLibraries(d),
                 !.aliases = Aliases(d),
                 !.parent = [check_functions |-> GatherSet(@.check_functions, d.check_functions),
                             check_symbols |-> GatherSymbols(@.check_symbols, d.check_symbols),
                             global_options |-> Promote(@.global_options, d.global_definitions)],
                 !.printed = Append(@, d)]
    /\ UNCHANGED <<inv, manifest, registry, cacheVars, run, history, guardVars, cfg, prj>>

NextEmit == PrintTarget

SpecEmit == InitEmit /\ [][NextEmit]_vars

\* The forms of the printed target declaration.
IsExecutable(line) == line.command = "add_executable"
IsInterface(line) == line.command = "add_library" /\ line.arguments = <<"INTERFACE">>
IsLibrary(line) ==
    line.command = "add_library" /\ line.arguments = <<"${LIBRARY_TYPE}", "${src}">>

ExactlyOneForm(line) ==
    Cardinality({f \in {"executable", "interface", "library"} :
                    \/ f = "executable" /\ IsExecutable(line)
                    \/ f = "interface" /\ IsInterface(line)
                    \/ f = "library" /\ IsLibrary(line)}) = 1

\* C20 as stated: the target is an executable iff the flags have
\* pfExecutable, an INTERFACE library iff the package is header-only,
\* otherwise a library of ${LIBRARY_TYPE}; exactly one form is emitted.
C20_AsStated ==
    out.pc = "printed" =>
        /\ Len(out.target) = 1
        /\ IsExecutable(out.target[1]) <=> pfExecutable \in out.dep.flags
        /\ IsInterface(out.target[1]) <=> pfHeaderOnly \in out.dep.flags
        /\ ExactlyOneForm(out.target[1])

\* C20 amended: the target is an executable iff the flags have pfExecutable,
\* an INTERFACE library iff the package is header-only and not an
\* executable, otherwise a library of ${LIBRARY_TYPE}; for every combination
\* of flags exactly one of the three forms is emitted.
C20_TargetKind ==
    out.pc = "printed" =>
        /\ Len(out.target) = 1
        /\ IsExecutable(out.target[1]) <=> pfExecutable \in out.dep.flags
        /\ IsInterface(out.target[1]) <=>
              (pfHeaderOnly \in out.dep.flags /\ pfExecutable \notin out.dep.flags)
        /\ IsLibrary(out.target[1]) <=>
              (pfHeaderOnly \notin out.dep.flags /\ pfExecutable \notin out.dep.flags)
        /\ ExactlyOneForm(out.target[1])

C20_Witness ==
    /\ out.pc = "printed"
    /\ {pfHeaderOnly, pfExecutable} \subseteq out.dep.flags
    /\ IsExecutable(out.target[1])

\* The registry flags the dependency named n of the printed package as an
\* executable.
RegistryExecutable(d, n) ==
    n \in DOMAIN d.dependencies /\ pfExecutable \in d.dependencies[n].flags

LinkedLibraryOf(d, n) ==
    target_name([name |-> n, version |-> d.project_dependencies[n].version])

\* C21: the target_link_libraries statement names cppan-helpers and exactly
\* the dependencies of the package's project that are not executables; each
\* of them is INTERFACE when the package is header-only, otherwise PRIVATE
\* when the dependency carries pfPrivate, otherwise PUBLIC; a dependency the
\* registry flags pfExecutable is never linked.
C21_LinkLibraries ==
    out.pc = "printed" =>
        LET d == out.dep
            libraries == {l \in out.links : l.library # HelperLibrary}
        IN  /\ \E l \in out.links : l.library = HelperLibrary
            /\ {l.library : l \in libraries}
                 = {LinkedLibraryOf(d, n) :
                       n \in {m \in DOMAIN d.project_dependencies :
                                 ~RegistryExecutable(d, m)}}
            /\ \A n \in DOMAIN d.project_dependencies :
                 \A l \in libraries :
                    l.library = LinkedLibraryOf(d, n) =>
                        l.visibility =
                            (IF pfHeaderOnly \in d.flags THEN "INTERFACE"
                             ELSE IF pfPrivate \in d.project_dependencies[n].flags
                             THEN "PRIVATE"
                             ELSE "PUBLIC")
            /\ \A n \in DOMAIN d.dependencies :
                 pfExecutable \in d.dependencies[n].flags =>
                    \A l \in out.links : l.library # n

C21_Witness ==
    /\ out.pc = "printed"
    /\ pfHeaderOnly \notin out.dep.flags
    /\ DOMAIN out.dep.project_dependencies = {NameAB, NameAC}
    /\ RegistryExecutable(out.dep, NameAB)
    /\ pfPrivate \in out.dep.project_dependencies[NameAC].flags
    /\ out.links = {[visibility |-> "PUBLIC", library |-> HelperLibrary],
                    [visibility |-> "PRIVATE", library |-> NameAC]}

FullVersion(v) == ~isBranch(v) /\ v.major >= 0 /\ v.minor >= 0 /\ v.patch >= 0

\* C22: for a version major.minor.patch that is no branch the file declares
\* exactly three aliases of the main target, <package>-<major>.<minor>,
\* <package>-<major> and <package>; for a branch it declares none.
C22_Aliases ==
    out.pc = "printed" =>
        LET d == out.dep
            v == d.version
        IN  /\ isBranch(v) => out.aliases = <<>>
            /\ FullVersion(v) =>
                  /\ Len(out.aliases) = 3
                  /\ out.aliases[1] = d.name \o <<"-", Digit(v.major), ".", Digit(v.minor)>>
                  /\ out.aliases[2] = d.name \o <<"-", Digit(v.major)>>
                  /\ out.aliases[3] = d.name

C22_Witness ==
    /\ out.pc = "printed"
    /\ out.dep.name = NameAB
    /\ out.dep.version = Version(1, 2, 3, "")
    /\ out.aliases = <<NameAB \o <<"-", "1", ".", "2">>, NameAB \o <<"-", "1">>, NameAB>>

RenderedVersionOf(d) == toAnyVersion(d.version)

StatedTargetName(d) ==
    IF RenderedVersionOf(d) = <<"*">> THEN d.name
    ELSE d.name \o <<"-">> \o RenderedVersionOf(d)

\* C23 as stated: target_name is <package> for the version "*" and
\* <package>-<version> otherwise, and variable_name is target_name with
\* every '.' replaced by '_'.
C23_AsStated ==
    out.pc = "printed" =>
        /\ out.pi.target_name = StatedTargetName(out.dep)
        /\ out.pi.variable_name = ReplaceDots(out.pi.target_name)

\* C23: target_name is <package> for the version "*" and
\* <package>-<version> otherwise; variable_name is <package>_ for the
\* version "*" and <package>__<version> otherwise, with every '.' replaced
\* by '_'.
C23_PackageInfo ==
    out.pc = "printed" =>
        /\ out.pi.target_name = StatedTargetName(out.dep)
        /\ out.pi.variable_name =
              ReplaceDots(IF RenderedVersionOf(out.dep) = <<"*">>
                          THEN out.dep.name \o <<"_">>
                          ELSE out.dep.name \o <<"_", "_">> \o RenderedVersionOf(out.dep))
        /\ \A k \in 1..Len(out.pi.variable_name) : out.pi.variable_name[k] # "."

C23_Witness ==
    /\ out.pc = "printed"
    /\ out.dep.name = NameAB
    /\ out.dep.version = Version(1, 2, 3, "")
    /\ out.pi.target_name = NameAB \o <<"-", "1", ".", "2", ".", "3">>
    /\ out.pi.variable_name = <<"a", "_", "b", "_", "_", "1", "_", "2", "_", "3">>

(***************************************************************************)
(* Several packages printed into one parent Config, one after another, as  *)
(* the loop of download_dependencies does (src/src/cppan.cpp 1110-1112).   *)
(* The parent may hold checks and global definitions of its own.           *)
(***************************************************************************)
MaxPrinted == 2

Symbol == "s"
SymbolMaps == {NoSymbols} \cup {[sym \in {Symbol} |-> {h}] : h \in {"h1", "h2"}}

GatheredDeps ==
    [name : {NameAB}, version : {Version(-1, -1, -1, "")}, flags : {{}},
     dependencies : {<<>>},
     project_dependencies : {<<>>},
     global_definitions : {[l \in Levels |-> IF l = "any" THEN a ELSE b] :
                              a \in {{}, {"X"}, {"Y"}}, b \in {{}, {"X"}}},
     check_functions : {{}, {"f"}, {"g"}},
     check_symbols : SymbolMaps]

OwnParent ==
    [check_functions |-> {"p"},
     check_symbols |-> [sym \in {Symbol} |-> {"h0"}],
     global_options |-> [l \in Levels |-> IF l = "any" THEN {"Z"} ELSE {}]]

Parents == {EmptyParent, OwnParent}

InitGather ==
    /\ DownloadIdle
    /\ cfg = Off
    /\ prj = Off
    /\ \E d \in GatheredDeps, parent \in Parents : out = NewOutput(d, parent)

\* The loop goes on to the next package, printed into the same parent.
NextPackage ==
    /\ out.pc = "printed"
    /\ Len(out.printed) < MaxPrinted
    /\ \E d \in GatheredDeps : out' = [out EXCEPT !.pc = "print", !.dep = d]
    /\ UNCHANGED <<inv, manifest, registry, cacheVars, run, history, guardVars, cfg, prj>>

NextGather == PrintTarget \/ NextPackage

SpecGather == InitGather /\ [][NextGather]_vars

\* C24: after any sequence of packages has been printed, the parent's
\* global definitions of each level are its initial ones united with those
\* of that level of every printed package's project; none is removed and
\* none appears at another level.
C24_GlobalDefinitions ==
    \A l \in Levels :
        out.parent.global_options[l]
            = out.initial.global_options[l]
              \cup UNION {out.printed[k].global_definitions[l] : k \in 1..Len(out.printed)}

C24_Witness ==
    /\ out.pc = "printed"
    /\ Len(out.printed) = 2
    /\ out.initial.global_options["any"] = {"Z"}
    /\ out.parent.global_options["any"] = {"X", "Y", "Z"}
    /\ out.parent.global_options["static"] = {"X"}

\* What has been recorded for the symbols, in order: the parent's own
\* entries, then those of each printed package.
RecordedSymbols == <<out.initial.check_symbols>> \o [k \in 1..Len(out.printed) |-> out.printed[k].check_symbols]

FirstRecorded(sym) ==
    LET first == CHOOSE k \in 1..Len(RecordedSymbols) :
                     /\ sym \in DOMAIN RecordedSymbols[k]
                     /\ \A j \in 1..(k - 1) : sym \notin DOMAIN RecordedSymbols[j]
    IN  RecordedSymbols[first][sym]

\* C30: the parent's check sets are the union of what it held and what
\* every printed package holds; for check_symbols every recorded symbol is
\* present with the header set first recorded for it, and the header sets
\* later packages give for the same symbol are ignored.
C30_GatheredChecks ==
    /\ out.parent.check_functions
         = out.initial.check_functions
           \cup UNION {out.printed[k].check_functions : k \in 1..Len(out.printed)}
    /\ DOMAIN out.parent.check_symbols
         = UNION {DOMAIN RecordedSymbols[k] : k \in 1..Len(RecordedSymbols)}
    /\ \A sym \in DOMAIN out.parent.check_symbols :
         out.parent.check_symbols[sym] = FirstRecorded(sym)

C30_Witness ==
    /\ out.pc = "printed"
    /\ Len(out.printed) = 2
    /\ out.initial.check_symbols = NoSymbols
    /\ out.printed[1].check_symbols = [sym \in {Symbol} |-> {"h1"}]
    /\ out.printed[2].check_symbols = [sym \in {Symbol} |-> {"h2"}]
    /\ out.parent.check_symbols = [sym \in {Symbol} |-> {"h1"}]
    /\ out.parent.check_functions = {"f", "g"}

(***************************************************************************)
(* Configuration layers (src/src/cppan.cpp 576-686): load_user_config      *)
(* builds a Config, loads the system file into it when there is one, then  *)
(* the user file.  A file is a document in which each key is defined or    *)
(* not; the values written in the system file and in the user file differ. *)
(***************************************************************************)
Undefined == [defined |-> FALSE, value |-> ""]
Scalar(v) == [defined |-> TRUE, value |-> v]
UndefinedText == [defined |-> FALSE, value |-> <<>>]
Text(t) == [defined |-> TRUE, value |-> t]

LayerNames == {"system", "user"}
LayerPackagesDir(layer) == IF layer = "system" THEN "local" ELSE "system"

LayerDocs(layer) ==
    [layer : {layer},
     host : {Undefined, Scalar(layer)},
     storage_dir : {Undefined, Scalar(layer)},
     root_project : {Undefined, Scalar(layer)},
     packages_dir : {Undefined, Scalar(LayerPackagesDir(layer))},
     pre_sources : {UndefinedText, Text(<<layer, "\n">>)},
     post_target : {UndefinedText, Text(<<layer, "\n">>)},
     check_function_exists : {{}, {layer}},
     check_type_size : {{}, {layer}}]

\* Config::Config()
DefaultConfig ==
    [pc |-> "system",
     host |-> "",
     storage_dir |-> StorageDir,
     root_project |-> "",
     packages_dir_type |-> "user",
     pre_sources |-> <<>>,
     post_target |-> <<>>,
     check_functions |-> {},
     check_types |-> {"size_t", "void *"},
     layers |-> <<>>]            \* the files loaded so far

\* Any other string throws.
packages_dir_type_from_string(s) ==
    CASE s = "local" -> "local"
      [] s = "user" -> "user"
      [] s = "system" -> "system"

\* get_scalar<String>(node, key, default_)
get_scalar(node, default) == IF node.defined THEN node.value ELSE default

\* EXTRACT_VAR: the variable is assigned only when the key is defined.
EXTRACT(val, node) == IF node.defined THEN node.value ELSE val

\* get_config_insertion: the scalar (empty when the key is not defined)
\* without its trailing newline.
get_config_insertion(node) ==
    LET dst == get_scalar(node, <<>>)
    IN  IF dst # <<>> THEN SubSeq(dst, 1, Len(dst) - 1) ELSE dst

\* Config::load_common(const YAML::Node &root)
load_common(c, root) ==
    [c EXCEPT
        !.host = EXTRACT(@, root.host),
        !.storage_dir = EXTRACT(@, root.storage_dir),
        !.root_project = EXTRACT(@, root.root_project),
        !.packages_dir_type =
            packages_dir_type_from_string(get_scalar(root.packages_dir, "user")),
        !.check_functions = @ \cup root.check_function_exists,
        !.check_types = @ \cup root.check_type_size,
        !.pre_sources = get_config_insertion(root.pre_sources),
        !.post_target = get_config_insertion(root.post_target),
        !.layers = Append(@, root)]

InitLayers ==
    /\ DownloadIdle
    /\ cfg = DefaultConfig
    /\ prj = Off
    /\ out = Off

\* load_system_config: the Config as constructed when the file is missing.
LoadSystem ==
    /\ cfg.pc = "system"
    /\ \E exists \in BOOLEAN, root \in LayerDocs("system") :
         cfg' = IF exists THEN [load_common(cfg, root) EXCEPT !.pc = "user"]
                ELSE [cfg EXCEPT !.pc = "user"]
    /\ UNCHANGED <<inv, manifest, registry, cacheVars, run, history, guardVars, prj, out>>

\* load_user_config: when the user file is missing the system configuration
\* is saved as the user file and returned.
LoadUser ==
    /\ cfg.pc = "user"
    /\ \E exists \in BOOLEAN, root \in LayerDocs("user") :
         cfg' = IF exists THEN [load_common(cfg, root) EXCEPT !.pc = "loaded"]
                ELSE [cfg EXCEPT !.pc = "loaded"]
    /\ UNCHANGED <<inv, manifest, registry, cacheVars, run, history, guardVars, prj, out>>

NextLayers == LoadSystem \/ LoadUser

SpecLayers == InitLayers /\ [][NextLayers]_vars

\* The value of the last layer that defines the key, the constructed value
\* when none does.
RECURSIVE LastDefined(_, _, _)
LastDefined(layers, key, constructed) ==
    IF layers = <<>> THEN constructed
    ELSE IF layers[Len(layers)][key].defined THEN layers[Len(layers)][key].value
    ELSE LastDefined(SubSeq(layers, 1, Len(layers) - 1), key, constructed)

WithoutNewline(t) == IF t = <<>> THEN t ELSE SubSeq(t, 1, Len(t) - 1)

AllOf(layers, key) == UNION {layers[k][key] : k \in 1..Len(layers)}

\* C19: after the layers are loaded in order (system, then user) into one
\* Config, each scalar key has the value of the last layer that defines it
\* (the earlier value is kept when a later layer omits the key), and each
\* set-valued key is the union over all layers.
C19_Layering ==
    cfg.pc = "loaded" =>
        /\ cfg.host = LastDefined(cfg.layers, "host", DefaultConfig.host)
        /\ cfg.storage_dir =
              LastDefined(cfg.layers, "storage_dir", DefaultConfig.storage_dir)
        /\ cfg.root_project =
              LastDefined(cfg.layers, "root_project", DefaultConfig.root_project)
        /\ cfg.packages_dir_type =
              LastDefined(cfg.layers, "packages_dir", DefaultConfig.packages_dir_type)
        /\ cfg.pre_sources =
              WithoutNewline(LastDefined(cfg.layers, "pre_sources", <<>>))
        /\ cfg.post_target =
              WithoutNewline(LastDefined(cfg.layers, "post_target", <<>>))
        /\ cfg.check_functions =
              DefaultConfig.check_functions \cup AllOf(cfg.layers, "check_function_exists")
        /\ cfg.check_types =
              DefaultConfig.check_types \cup AllOf(cfg.layers, "check_type_size")

(***************************************************************************)
(* Loading a manifest (Config::load, Config::load_project,                 *)
(* Config::relative_name_to_absolute; src/src/cppan.cpp 688-910).  The     *)
(* manifest has one project; of its keys, root_directory and dependencies  *)
(* are modelled.  root_project is the Config's, as load_common left it.    *)
(***************************************************************************)
NameC == <<"c">>
NamePrivate == <<"private">>      \* the key, read as a package name
NamePublic == <<"public">>
ListedNames == {NameAB, NameC}    \* names written in a dependencies node
RootProjects == {<<>>, NameA, NameB}

\* The values written under private, under public and at the top level.
PrivateVersion == "1"
PublicVersion == "2"

\* root_directory values, relative paths as sequences of elements.
RootDirectories ==
    {<<"src">>, <<"..">>, <<"src", "..">>, <<"..", "project">>, <<"..", "home">>}

NoSubMap == [defined |-> FALSE, names |-> {}]
SubMaps == {NoSubMap} \cup [defined : {TRUE}, names : SUBSET ListedNames]

\* The dependencies node: not defined, a scalar, a sequence, or a map with
\* the optional keys private and public and other (top-level) keys.
DependencyDocs ==
    {[kind |-> "none", names |-> {}, private |-> NoSubMap, public |-> NoSubMap]}
    \cup [kind : {"scalar"}, names : {{n} : n \in ListedNames},
          private : {NoSubMap}, public : {NoSubMap}]
    \cup [kind : {"sequence"}, names : SUBSET ListedNames,
          private : {NoSubMap}, public : {NoSubMap}]
    \cup [kind : {"map"}, names : SUBSET ListedNames,
          private : SubMaps, public : SubMaps]

ManifestDocs ==
    [root_directory : {UndefinedText} \cup {Text(d) : d \in RootDirectories},
     dependencies : DependencyDocs]

\* boost::filesystem::path::compare: element by element, each as a string.
SegRank(e) ==
    CASE e = ".." -> 1 [] e = "cppan" -> 2 [] e = "home" -> 3
      [] e = "missing" -> 4 [] e = "project" -> 5 [] e = "src" -> 6

RECURSIVE PathLess(_, _)
PathLess(x, y) ==
    IF y = <<>> THEN FALSE
    ELSE IF x = <<>> THEN TRUE
    ELSE IF Head(x) # Head(y) THEN SegRank(Head(x)) < SegRank(Head(y))
    ELSE PathLess(Tail(x), Tail(y))

\* if (cp / p.root_directory < cp) throw
RootDirectoryRejected(cp, root_directory) == PathLess(cp \o root_directory, cp)

\* ProjectPath operator/: the segments of the one, then those of the other.
Join(root_project, name) == root_project \o <<".">> \o name

relative_name_to_absolute(name, root_project) ==
    IF name = <<>> THEN [ok |-> TRUE, package |-> <<>>]
    ELSE IF is_relative(name)
    THEN IF root_project = <<>>
         THEN [ok |-> FALSE, package |-> <<>>]
         ELSE [ok |-> TRUE, package |-> Join(root_project, name)]
    ELSE [ok |-> TRUE, package |-> name]

\* Every name of the set resolves.
Resolvable(names, root_project) ==
    \A n \in names : relative_name_to_absolute(n, root_project).ok

\* get_dep for each entry of a map: deps[package.toString()] = dependency.
GetDeps(names, version, root_project) ==
    LET packages == {relative_name_to_absolute(n, root_project).package : n \in names}
    IN  [d \in packages |-> [version |-> version, flags |-> {}]]

\* flags.set(pfPrivate); p.dependencies.insert(d): an entry already there
\* is kept.
InsertPrivateUnflagged(dependencies, dependencies_private) ==
    [d \in DOMAIN dependencies \cup DOMAIN dependencies_private |->
        IF d \in DOMAIN dependencies THEN dependencies[d]
        ELSE dependencies_private[d]]
InsertPrivate(dependencies, dependencies_private) ==
    [d \in DOMAIN dependencies \cup DOMAIN dependencies_private |->
        IF d \in DOMAIN dependencies THEN dependencies[d]
        ELSE [dependencies_private[d] EXCEPT !.flags = @ \cup {pfPrivate}]]

\* The keys of the map node, private and public included when defined.
AllKeys(doc) ==
    doc.names \cup (IF doc.private.defined THEN {NamePrivate} ELSE {})
              \cup (IF doc.public.defined THEN {NamePublic} ELSE {})

\* The version get_dep reads from an entry: the scalar, or the default
\* when the value is a map without a version key.
EntryVersion(name) ==
    IF name \in {NamePrivate, NamePublic} THEN AnyVersion ELSE PublicVersion

\* The dependencies of the project, or the failure of a name to resolve.
LoadDependencies(doc, root_project) ==
    IF doc.kind = "none" THEN [ok |-> TRUE, dependencies |-> <<>>]
    ELSE IF doc.kind \in {"scalar", "sequence"}
    THEN [ok |-> Resolvable(doc.names, root_project),
          dependencies |-> GetDeps(doc.names, AnyVersion, root_project)]
    ELSE LET dependencies_private == GetDeps(doc.private.names, PrivateVersion, root_project)
             public == GetDeps(doc.public.names, PublicVersion, root_project)
             dependencies == InsertPrivate(public, dependencies_private)
         IN  IF ~Resolvable(doc.private.names \cup doc.public.names, root_project)
             THEN [ok |-> FALSE, dependencies |-> <<>>]
             ELSE IF DOMAIN dependencies = {} /\ DOMAIN dependencies_private = {}
             THEN [ok |-> Resolvable(AllKeys(doc), root_project),
                   dependencies |->
                      [d \in {relative_name_to_absolute(n, root_project).package :
                                 n \in AllKeys(doc)} |->
                          [version |-> EntryVersion(
                              CHOOSE n \in AllKeys(doc) :
                                 relative_name_to_absolute(n, root_project).package = d),
                           flags |-> {}]]]
             ELSE [ok |-> TRUE, dependencies |-> dependencies]

InitLoad ==
    /\ DownloadIdle
    /\ cfg = Off
    /\ out = Off
    /\ \E r \in RootProjects, doc \in ManifestDocs :
         prj = [pc |-> "load", root_project |-> r, doc |-> doc, cwd |-> ProjectDir,
                root_directory |-> <<>>, dependencies |-> <<>>, error |-> ""]

\* Config::load of a manifest that has no projects key.
LoadProject ==
    /\ prj.pc = "load"
    /\ LET rd == prj.doc.root_directory
           deps == LoadDependencies(prj.doc.dependencies, prj.root_project)
       IN  IF rd.defined /\ RootDirectoryRejected(prj.cwd, rd.value)
           THEN prj' = [prj EXCEPT !.pc = "failed", !.error = "root_directory"]
           ELSE IF ~deps.ok
           THEN prj' = [prj EXCEPT !.pc = "failed", !.error = "root_project",
                                   !.root_directory = rd.value]
           ELSE prj' = [prj EXCEPT !.pc = "loaded", !.root_directory = rd.value,
                                   !.dependencies = deps.dependencies]
    /\ UNCHANGED <<inv, manifest, registry, cacheVars, run, history, guardVars, cfg, out>>

NextLoad == LoadProject

SpecLoad == InitLoad /\ [][NextLoad]_vars

\* C15: load_project accepts a root_directory only when cwd/root_directory,
\* resolved, is cwd itself or a descendant of cwd; every value that leaves
\* cwd (one starting with "..", say) makes the load fail with an error.
C15_RootDirectoryInsideCwd ==
    (prj.pc \in {"loaded", "failed"} /\ prj.doc.root_directory.defined) =>
        LET resolved == Walk(prj.cwd, prj.doc.root_directory.value)
        IN  (prj.pc = "failed" /\ prj.error = "root_directory")
                <=> ~IsPrefix(prj.cwd, resolved)

\* C16: for every relative name p and every non-empty root_project r,
\* relative_name_to_absolute(p) equals r / p, is absolute, and resolving
\* the result again returns it unchanged; so every dependency package a
\* successful load stores in the project is absolute.
C16_ResolvedNamesAbsolute ==
    prj.pc \in {"loaded", "failed"} =>
        /\ \A name \in ListedNames :
              (is_relative(name) /\ prj.root_project # <<>>) =>
                  LET resolved == relative_name_to_absolute(name, prj.root_project)
                  IN  /\ resolved.ok
                      /\ resolved.package = Join(prj.root_project, name)
                      /\ is_absolute(resolved.package)
                      /\ relative_name_to_absolute(resolved.package, prj.root_project)
                            = resolved
        /\ prj.pc = "loaded" => \A d \in DOMAIN prj.dependencies : is_absolute(d)

\* The packages that the names listed in a sub-map stand for.
Listed(submap) ==
    {relative_name_to_absolute(n, prj.root_project).package : n \in submap.names}

\* C17 as stated: after a dependencies map is loaded, every package listed
\* under private is in the project's dependencies with pfPrivate set, and
\* every package listed under public is there with pfPrivate clear.
C17_AsStated ==
    (prj.pc = "loaded" /\ prj.doc.dependencies.kind = "map") =>
        /\ \A d \in Listed(prj.doc.dependencies.private) :
              d \in DOMAIN prj.dependencies /\ pfPrivate \in prj.dependencies[d].flags
        /\ \A d \in Listed(prj.doc.dependencies.public) :
              d \in DOMAIN prj.dependencies /\ pfPrivate \notin prj.dependencies[d].flags

\* C17 amended: after a dependencies map is loaded, every package listed
\* under private and not also under public is in the project's dependencies
\* with pfPrivate set, and every package listed under public is there with
\* pfPrivate clear (and with the value written under public).
C17_PrivatePublic ==
    (prj.pc = "loaded" /\ prj.doc.dependencies.kind = "map") =>
        /\ \A d \in Listed(prj.doc.dependencies.private)
                        \ Listed(prj.doc.dependencies.public) :
              /\ d \in DOMAIN prj.dependencies
              /\ pfPrivate \in prj.dependencies[d].flags
              /\ prj.dependencies[d].version = PrivateVersion
        /\ \A d \in Listed(prj.doc.dependencies.public) :
              /\ d \in DOMAIN prj.dependencies
              /\ pfPrivate \notin prj.dependencies[d].flags
              /\ prj.dependencies[d].version = PublicVersion

C17_Witness ==
    /\ prj.pc = "loaded"
    /\ prj.doc.dependencies.kind = "map"
    /\ Listed(prj.doc.dependencies.private) \ Listed(prj.doc.dependencies.public) # {}
    /\ Listed(prj.doc.dependencies.private) \cap Listed(prj.doc.dependencies.public) # {}

\* C18: the top-level entries of a dependencies map are read as public
\* dependencies exactly when the map has neither a public key nor a private
\* key; when either key is present only the entries of those sub-maps
\* become dependencies, and the keys "public" and "private" are never taken
\* as package names.
C18_TopLevelOnlyWithoutKeys ==
    (prj.pc = "loaded" /\ prj.doc.dependencies.kind = "map") =>
        LET doc == prj.doc.dependencies
            top == {relative_name_to_absolute(n, prj.root_project).package :
                       n \in doc.names}
            keys == {relative_name_to_absolute(n, prj.root_project).package :
                       n \in {NamePrivate, NamePublic}}
        IN  /\ (~doc.private.defined /\ ~doc.public.defined) =>
                  /\ DOMAIN prj.dependencies = top
                  /\ \A d \in top : pfPrivate \notin prj.dependencies[d].flags
            /\ (doc.private.defined \/ doc.public.defined) =>
                  DOMAIN prj.dependencies = Listed(doc.private) \cup Listed(doc.public)
            /\ DOMAIN prj.dependencies \cap keys = {}

=============================================================================
